---- MODULE Spec2Model ----
(***************************************************************************)
(* Model of the serial bridge of ovos-PHAL-plugin-mk1:                     *)
(*   - EnclosureWriter (arduino.py): a bounded queue of commands, filled   *)
(*     by any number of callers of write() and drained by one thread       *)
(*     running flush();                                                    *)
(*   - EnclosureReader (arduino.py): one thread running read(), which      *)
(*     takes lines off the serial link, decodes them and hands them to     *)
(*     process(), which publishes messages on the bus.                     *)
(*                                                                         *)
(* Text is modelled as a sequence of pieces.  A command is the pair        *)
(* <<caller, n>> (the n-th command that caller passed to write), so that   *)
(* any two commands can be told apart; commands are text that UTF-8 can    *)
(* encode.  An incoming line is a sequence of tokens: the words the        *)
(* reader looks for, other text, a byte that is not valid UTF-8, and the   *)
(* line terminator bytes.                                                  *)
(***************************************************************************)
EXTENDS Integers, Sequences, FiniteSets, TLC

\* ------------------------------------------------------------------ bounds

\* Calls of write() each caller makes in WriterSpec.
MaxCalls == 3
\* Calls of write() the second caller makes in BackpressureSpec.
ExtraCalls == 1
\* Calls on the serial link or the bus that may raise in one run.
MaxFaults == 1
\* Pieces in the longest line the device sends.
MaxLineLen == 2
\* Calls of serial.readline() in one run.
MaxReads == 2

\* Longest image code a caller of on_display gives.
MaxCodeLen == 38

\* Messages the bus gives each of its threads while the bridge is constructed.
MaxEvents == 1

\* Longest image code of an icon sent while another handler runs.
MaxIconLen == 59

\* ---------------------------------------------------------------- constants

\* EnclosureWriter.__init__(self, serial, bus, size=16): Queue(size).
QueueSize == 16

Producers == {"p1", "p2"}

NoCmd == <<>>

VARIABLES
    \* EnclosureWriter
    commands,      \* self.commands: the queue's items, oldest first
    unfinished,    \* self.commands.unfinished_tasks
    walive,        \* self.alive
    wpc,           \* where the flush() thread is
    wcmd,          \* flush()'s local cmd
    ppc,           \* per caller of write(): "idle", or "put" (inside Queue.put)
    pcmd,          \* per caller: the command it is putting
    calls,         \* per caller: calls of write() made so far
    budget,        \* per caller: calls of write() it makes in this run
    faults,        \* serial writes that may still raise in this run
    \* history of the writer
    enqueued,      \* the commands in the order they entered the queue
    handed,        \* the lines passed to serial.write, in order
    ended,         \* calls of serial.write that have returned or raised
    raised,        \* the lines whose serial.write raised
    stopAt         \* Len(handed) when stop() returned, -1 before

wvars == <<commands, unfinished, walive, wpc, wcmd, ppc, pcmd, calls, budget,
           faults, enqueued, handed, ended, raised, stopAt>>

\* EnclosureReader
VARIABLES
    ralive,        \* self.alive
    rpc,           \* where the read() thread is
    rraw,          \* what serial.readline() returned last
    rdata,         \* read()'s local data: the line without its last two bytes
    rstr,          \* read()'s local data_str, process()'s parameter data
    rstep,         \* steps of process() carried out for this line
    rreads,        \* calls of serial.readline() that have ended
    rfaults,       \* calls (readline, bus.emit) that may still raise
    \* history of the reader
    rlog,          \* what process() has done for this line, in order
    rcur           \* how this iteration of the loop went so far

rvars == <<ralive, rpc, rraw, rdata, rstr, rstep, rreads, rfaults, rlog, rcur>>

\* MycroftMark1
VARIABLES
    scenario,      \* which bus events this run delivers to the bridge
    mpc,           \* where MycroftMark1.__init__ is
    mthreads,      \* the threads __init__ has started
    msubs,         \* the bus events __init__ has subscribed to, in order
    mbus,          \* the bus messages __init__ has emitted, in order
    rgb,           \* self._current_rgb: the list object the attribute names
    rgbgen,        \* which list object that is (a new one per assignment)
    hnd,           \* per handler thread: the event it handles and what is
                   \* left to do for it
    left           \* per handler thread: events the bus may still give it

mvars == <<scenario, mpc, mthreads, msubs, mbus, rgb, rgbgen, hnd, left>>

vars == <<wvars, rvars, mvars>>

\* What an action of the writer, and one of the reader, leaves alone.
NotWriter == <<rvars, mvars>>
NotReader == <<wvars, mvars>>

\* ------------------------------------------------------------ text helpers

\* cmd + '\n' (arduino.py:154); .encode() keeps the text of a command.
WireLine(cmd) == Append(cmd, "\n")

Range(s) == {s[i] : i \in 1..Len(s)}

\* str(n) for a decimal digit n.
Digit(n) == <<"0", "1", "2", "3", "4", "5", "6", "7", "8", "9">>[n + 1]

RECURSIVE NatStr(_)
\* str(n) for an int n >= 0: its decimal digits.
NatStr(n) ==
    IF n < 10 THEN <<Digit(n)>> ELSE NatStr(n \div 10) \o <<Digit(n % 10)>>

\* str(n) for an int n.
Str(n) == IF n < 0 THEN <<"-">> \o NatStr(0 - n) ELSE NatStr(n)

\* -------------------------------------------------------- EnclosureWriter

\* State after EnclosureWriter.__init__, with the callers' budgets b and f
\* serial writes that may raise.
WriterInit(b, f) ==
    /\ commands = <<>>
    /\ unfinished = 0
    /\ walive = TRUE
    /\ wpc = "while"
    /\ wcmd = NoCmd
    /\ ppc = [p \in Producers |-> "idle"]
    /\ pcmd = [p \in Producers |-> NoCmd]
    /\ calls = [p \in Producers |-> 0]
    /\ budget = b
    /\ faults = f
    /\ enqueued = <<>>
    /\ handed = <<>>
    /\ ended = 0
    /\ raised = {}
    /\ stopAt = -1

\* A caller enters write(command): str(command) is the command's text.
WriteCall(p) ==
    /\ ppc[p] = "idle"
    /\ calls[p] < budget[p]
    /\ ppc' = [ppc EXCEPT ![p] = "put"]
    /\ pcmd' = [pcmd EXCEPT ![p] = <<p, calls[p] + 1>>]
    /\ calls' = [calls EXCEPT ![p] = calls[p] + 1]
    /\ UNCHANGED <<commands, unfinished, walive, wpc, wcmd, budget, faults,
                   enqueued, handed, ended, raised, stopAt, NotWriter>>

\* As QueuePut, were it put_nowait() with queue.Full swallowed: a command
\* that finds the queue full is dropped.
QueuePut_NoWait(p) ==
    /\ ppc[p] = "put"
    /\ commands' = IF Len(commands) < QueueSize
                    THEN Append(commands, pcmd[p]) ELSE commands
    /\ unfinished' = IF Len(commands) < QueueSize
                      THEN unfinished + 1 ELSE unfinished
    /\ enqueued' = IF Len(commands) < QueueSize
                    THEN Append(enqueued, pcmd[p]) ELSE enqueued
    /\ ppc' = [ppc EXCEPT ![p] = "idle"]
    /\ pcmd' = [pcmd EXCEPT ![p] = NoCmd]
    /\ UNCHANGED <<walive, wpc, wcmd, calls, budget, faults, handed, ended,
                   raised, stopAt, NotWriter>>

\* Queue.put(item) with block=True and no timeout: waits while the queue
\* holds maxsize items, then appends the item and counts it as unfinished.
QueuePut(p) ==
    /\ ppc[p] = "put"
    /\ Len(commands) < QueueSize
    /\ commands' = Append(commands, pcmd[p])
    /\ unfinished' = unfinished + 1
    /\ enqueued' = Append(enqueued, pcmd[p])
    /\ ppc' = [ppc EXCEPT ![p] = "idle"]
    /\ pcmd' = [pcmd EXCEPT ![p] = NoCmd]
    /\ UNCHANGED <<walive, wpc, wcmd, calls, budget, faults, handed, ended,
                   raised, stopAt, NotWriter>>

\* As WriterLoop, were the loop "while True".
WriterLoop_IgnoresAlive ==
    /\ wpc = "while"
    /\ wpc' = "get"
    /\ UNCHANGED <<commands, unfinished, walive, wcmd, ppc, pcmd, calls,
                   budget, faults, enqueued, handed, ended, raised, stopAt, NotWriter>>

\* flush(): the test of "while self.alive".
WriterLoop ==
    /\ wpc = "while"
    /\ wpc' = IF walive THEN "get" ELSE "exited"
    /\ UNCHANGED <<commands, unfinished, walive, wcmd, ppc, pcmd, calls,
                   budget, faults, enqueued, handed, ended, raised, stopAt, NotWriter>>

\* As WriterGet, were the queue a LifoQueue: the newest item is taken.
WriterGet_Lifo ==
    /\ wpc = "get"
    /\ commands # <<>>
    /\ wcmd' = WireLine(commands[Len(commands)])
    /\ commands' = SubSeq(commands, 1, Len(commands) - 1)
    /\ wpc' = "write"
    /\ UNCHANGED <<unfinished, walive, ppc, pcmd, calls, budget, faults,
                   enqueued, handed, ended, raised, stopAt, NotWriter>>

\* flush(): cmd = self.commands.get() + '\n'; get() waits for an item.
WriterGet ==
    /\ wpc = "get"
    /\ commands # <<>>
    /\ wcmd' = WireLine(Head(commands))
    /\ commands' = Tail(commands)
    /\ wpc' = "write"
    /\ UNCHANGED <<unfinished, walive, ppc, pcmd, calls, budget, faults,
                   enqueued, handed, ended, raised, stopAt, NotWriter>>

\* flush(): self.serial.write(cmd.encode()) is entered.
WriterWriteCall ==
    /\ wpc = "write"
    /\ handed' = Append(handed, wcmd)
    /\ wpc' = "writing"
    /\ UNCHANGED <<commands, unfinished, walive, wcmd, ppc, pcmd, calls,
                   budget, faults, enqueued, ended, raised, stopAt, NotWriter>>

\* serial.write returns.
WriterWriteReturn ==
    /\ wpc = "writing"
    /\ ended' = ended + 1
    /\ wpc' = "task_done"
    /\ UNCHANGED <<commands, unfinished, walive, wcmd, ppc, pcmd, calls,
                   budget, faults, enqueued, handed, raised, stopAt, NotWriter>>

\* As WriterWriteRaise, were there no "except": the exception ends flush().
WriterWriteRaise_Uncaught ==
    /\ wpc = "writing"
    /\ faults > 0
    /\ faults' = faults - 1
    /\ raised' = raised \cup {wcmd}
    /\ ended' = ended + 1
    /\ wpc' = "exited"
    /\ UNCHANGED <<commands, unfinished, walive, wcmd, ppc, pcmd, calls,
                   budget, enqueued, handed, stopAt, NotWriter>>

\* serial.write raises: "except Exception" logs it and the loop goes on;
\* task_done() is skipped.
WriterWriteRaise ==
    /\ wpc = "writing"
    /\ faults > 0
    /\ faults' = faults - 1
    /\ raised' = raised \cup {wcmd}
    /\ ended' = ended + 1
    /\ wpc' = "while"
    /\ UNCHANGED <<commands, unfinished, walive, wcmd, ppc, pcmd, calls,
                   budget, enqueued, handed, stopAt, NotWriter>>

\* flush(): self.commands.task_done().
WriterTaskDone ==
    /\ wpc = "task_done"
    /\ unfinished' = unfinished - 1
    /\ wpc' = "while"
    /\ UNCHANGED <<commands, walive, wcmd, ppc, pcmd, calls, budget, faults,
                   enqueued, handed, ended, raised, stopAt, NotWriter>>

\* EnclosureWriter.stop(), called from any other thread.
WriterStop ==
    /\ walive
    /\ walive' = FALSE
    /\ stopAt' = Len(handed)
    /\ UNCHANGED <<commands, unfinished, wpc, wcmd, ppc, pcmd, calls, budget,
                   faults, enqueued, handed, ended, raised, NotWriter>>

\* The steps of the flush() thread.
WriterThread ==
    \/ WriterLoop
    \/ WriterGet
    \/ WriterWriteCall
    \/ WriterWriteReturn
    \/ WriterWriteRaise
    \/ WriterTaskDone

WriterNext ==
    \/ \E p \in Producers : WriteCall(p)
    \/ \E p \in Producers : QueuePut(p)
    \/ WriterThread
    \/ WriterStop

\* -------------------------------------------------------- EnclosureReader

\* The words process() looks for, as text.
SystemVersion == <<"Command: ", "system.version">>
MycroftStop == <<"mycroft.stop">>
VolumeUp == <<"volume.up">>
VolumeDown == <<"volume.down">>
UnitShutdown == <<"unit.shutdown">>
UnitReboot == <<"unit.reboot">>
UnitSetwifi == <<"unit.setwifi">>
UnitFactoryReset == <<"unit.factory-reset">>
UnitEnableSsh == <<"unit.enable-ssh">>
UnitDisableSsh == <<"unit.disable-ssh">>

Markers == {SystemVersion, MycroftStop, VolumeUp, VolumeDown, UnitShutdown,
            UnitReboot, UnitSetwifi, UnitFactoryReset, UnitEnableSsh,
            UnitDisableSsh}

\* A byte that is not valid UTF-8, and what decoding with errors='replace'
\* puts in its place (U+FFFD).
BadByte == "\\xff"
Replacement == "\\ufffd"

\* The pieces a line sent by the device is made of.
Tokens == UNION {Range(m) : m \in Markers} \cup {"x", BadByte}

\* What the device sends between two line ends.
Payloads == UNION {[1..n -> Tokens] : n \in 0..MaxLineLen}

\* The line ends serial.readline() may return: CR LF, or LF alone.
Terminators == {<<"\r", "\n">>, <<"\n">>}

\* What serial.readline() may return: a line with its end, or nothing when
\* the read timed out.
RawLines == {p \o t : p \in Payloads, t \in Terminators} \cup {<<>>}

\* x[:-2]
DropLastTwo(x) == SubSeq(x, 1, Len(x) - 2)

\* Whether bytes.decode() (strict UTF-8) raises UnicodeError.
DecodeRaises(data) == \E i \in 1..Len(data) : data[i] = BadByte

\* data.decode('utf-8', errors='replace')
DecodeReplace(data) ==
    [i \in 1..Len(data) |-> IF data[i] = BadByte THEN Replacement ELSE data[i]]

\* marker in data
Contains(marker, data) ==
    \E i \in 0..(Len(data) - Len(marker)) :
        SubSeq(data, i + 1, i + Len(marker)) = marker

NoData == {}

\* self.bus.emit(Message(type, data)) at line at of arduino.py.
Emit(at, type, data) == [op |-> "emit", at |-> at, type |-> type, data |-> data]

\* time.sleep(0.5) at line at of arduino.py.
Sleep(at) == [op |-> "sleep", at |-> at, type |-> <<>>, data |-> {<<"ms", 500>>}]

GreyEyes == {<<"r", 70>>, <<"g", 65>>, <<"b", 69>>}

\* As EmitsRawLine, with the test the wrong way round.
EmitsRawLine_Inverted(data) == Contains(MycroftStop, data)

\* As EmitsRawLine, were the raw line emitted without a test.
EmitsRawLine_Always(data) == TRUE

\* As EmitsRawLine, were the raw line emitted only for a line that holds
\* none of the words process() looks for.
EmitsRawLine_OnlyUnmarked(data) == \A m \in Markers : ~Contains(m, data)

\* process(): the test that guards the emit of the raw line.
EmitsRawLine(data) == ~Contains(MycroftStop, data)

\* As ShutdownSteps, with system.shutdown emitted before the mouth is reset
\* and without the sleep.
ShutdownSteps_TerminalEarly ==
    << Emit(93, <<"enclosure.eyes.color">>, GreyEyes),
       Emit(95, <<"enclosure.eyes.timedspin">>, {<<"length", 12000>>}),
       Emit(100, <<"system.shutdown">>, NoData),
       Emit(98, <<"enclosure.mouth.reset">>, NoData) >>

\* process(): the block run when the line holds "unit.shutdown".
ShutdownSteps ==
    << Emit(93, <<"enclosure.eyes.color">>, GreyEyes),
       Emit(95, <<"enclosure.eyes.timedspin">>, {<<"length", 12000>>}),
       Emit(98, <<"enclosure.mouth.reset">>, NoData),
       Sleep(99),
       Emit(100, <<"system.shutdown">>, NoData) >>

\* process(): the block run when the line holds "unit.reboot".
RebootSteps ==
    << Emit(104, <<"enclosure.eyes.color">>, GreyEyes),
       Emit(106, <<"enclosure.eyes.spin">>, NoData),
       Emit(107, <<"enclosure.mouth.reset">>, NoData),
       Sleep(108),
       Emit(109, <<"system.reboot">>, NoData) >>

\* As Process, were its if statements after the first an elif chain: only
\* the first word the line holds is acted on.
Process_FirstMatch(data) ==
    (IF ~Contains(MycroftStop, data)
     THEN <<[op |-> "emit", at |-> 73, type |-> data, data |-> {}]>>
     ELSE <<>>)
    \o (IF Contains(SystemVersion, data)
        THEN <<Emit(78, <<"enclosure.started">>, NoData)>>
        ELSE IF Contains(MycroftStop, data)
        THEN <<Emit(81, <<"mycroft.stop">>, NoData)>>
        ELSE IF Contains(VolumeUp, data)
        THEN <<Emit(84, <<"mycroft.volume.increase">>,
                    {<<"play_sound", TRUE>>})>>
        ELSE IF Contains(VolumeDown, data)
        THEN <<Emit(88, <<"mycroft.volume.decrease">>,
                    {<<"play_sound", TRUE>>})>>
        ELSE IF Contains(UnitShutdown, data) THEN ShutdownSteps
        ELSE IF Contains(UnitReboot, data) THEN RebootSteps
        ELSE IF Contains(UnitSetwifi, data)
        THEN <<Emit(112, <<"system.wifi.setup">>, NoData)>>
        ELSE IF Contains(UnitFactoryReset, data)
        THEN <<Emit(114, <<"system.factory.reset">>, NoData)>>
        ELSE IF Contains(UnitEnableSsh, data)
        THEN <<Emit(117, <<"system.ssh.enable">>, NoData)>>
        ELSE IF Contains(UnitDisableSsh, data)
        THEN <<Emit(120, <<"system.ssh.disable">>, NoData)>>
        ELSE <<>>)

When(cond, steps) == IF cond THEN steps ELSE <<>>

\* process(data): its emits and sleeps, in the order of its if statements.
Process(data) ==
    When(EmitsRawLine(data), <<Emit(73, data, NoData)>>)
    \o When(Contains(SystemVersion, data),
            <<Emit(78, <<"enclosure.started">>, NoData)>>)
    \o When(Contains(MycroftStop, data),
            <<Emit(81, <<"mycroft.stop">>, NoData)>>)
    \o When(Contains(VolumeUp, data),
            <<Emit(84, <<"mycroft.volume.increase">>, {<<"play_sound", TRUE>>})>>)
    \o When(Contains(VolumeDown, data),
            <<Emit(88, <<"mycroft.volume.decrease">>, {<<"play_sound", TRUE>>})>>)
    \o When(Contains(UnitShutdown, data), ShutdownSteps)
    \o When(Contains(UnitReboot, data), RebootSteps)
    \o When(Contains(UnitSetwifi, data),
            <<Emit(112, <<"system.wifi.setup">>, NoData)>>)
    \o When(Contains(UnitFactoryReset, data),
            <<Emit(114, <<"system.factory.reset">>, NoData)>>)
    \o When(Contains(UnitEnableSsh, data),
            <<Emit(117, <<"system.ssh.enable">>, NoData)>>)
    \o When(Contains(UnitDisableSsh, data),
            <<Emit(120, <<"system.ssh.disable">>, NoData)>>)

\* State after EnclosureReader.__init__.
ReaderInit ==
    /\ ralive = TRUE
    /\ rpc = "while"
    /\ rraw = <<>>
    /\ rdata = <<>>
    /\ rstr = <<>>
    /\ rstep = 0
    /\ rreads = 0
    /\ rfaults = MaxFaults
    /\ rlog = <<>>
    /\ rcur = "none"

\* read(): the test of "while self.alive".  The iteration before is over:
\* its locals are dead.
ReaderLoop ==
    /\ rpc = "while"
    /\ rpc' = IF ralive THEN "readline" ELSE "exited"
    /\ rcur' = "none"
    /\ rraw' = <<>>
    /\ rdata' = <<>>
    /\ rstr' = <<>>
    /\ rstep' = 0
    /\ rlog' = <<>>
    /\ UNCHANGED <<ralive, rreads, rfaults, NotReader>>

\* read(): data = self.serial.readline()[:-2], and "if data:".
ReaderReadline ==
    /\ rpc = "readline"
    /\ rreads < MaxReads
    /\ \E raw \in RawLines :
        /\ rraw' = raw
        /\ rdata' = DropLastTwo(raw)
        /\ rpc' = IF DropLastTwo(raw) # <<>> THEN "decode" ELSE "while"
        /\ rcur' = IF DropLastTwo(raw) # <<>> THEN "read" ELSE "empty"
    /\ rreads' = rreads + 1
    /\ UNCHANGED <<ralive, rstr, rstep, rfaults, rlog, NotReader>>

\* read(): serial.readline() raises; "except Exception" logs it.
ReaderReadlineRaise ==
    /\ rpc = "readline"
    /\ rreads < MaxReads
    /\ rfaults > 0
    /\ rfaults' = rfaults - 1
    /\ rreads' = rreads + 1
    /\ rcur' = "read_raised"
    /\ rpc' = "while"
    /\ UNCHANGED <<ralive, rraw, rdata, rstr, rstep, rlog, NotReader>>

\* read(): data_str = data.decode(), or, when that raises UnicodeError,
\* data.decode('utf-8', errors='replace') and a warning.
ReaderDecode ==
    /\ rpc = "decode"
    /\ rstr' = IF DecodeRaises(rdata) THEN DecodeReplace(rdata) ELSE rdata
    /\ rcur' = IF DecodeRaises(rdata) THEN "replaced" ELSE "decoded"
    /\ rpc' = "process"
    /\ UNCHANGED <<ralive, rraw, rdata, rstep, rreads, rfaults, rlog, NotReader>>

\* process(): its next emit or sleep is carried out.
ReaderProcessStep ==
    /\ rpc = "process"
    /\ rstep < Len(Process(rstr))
    /\ rlog' = Append(rlog, Process(rstr)[rstep + 1])
    /\ rstep' = rstep + 1
    /\ UNCHANGED <<ralive, rpc, rraw, rdata, rstr, rreads, rfaults, rcur,
                   NotReader>>

\* As ReaderEmitRaise, were there no "except": the exception ends read().
ReaderEmitRaise_Uncaught ==
    /\ rpc = "process"
    /\ rstep < Len(Process(rstr))
    /\ Process(rstr)[rstep + 1].op = "emit"
    /\ rfaults > 0
    /\ rfaults' = rfaults - 1
    /\ rcur' = "emit_raised"
    /\ rpc' = "exited"
    /\ UNCHANGED <<ralive, rraw, rdata, rstr, rstep, rreads, rlog, NotReader>>

\* process(): its next emit raises; read()'s "except Exception" logs it.
ReaderEmitRaise ==
    /\ rpc = "process"
    /\ rstep < Len(Process(rstr))
    /\ Process(rstr)[rstep + 1].op = "emit"
    /\ rfaults > 0
    /\ rfaults' = rfaults - 1
    /\ rcur' = "emit_raised"
    /\ rpc' = "while"
    /\ UNCHANGED <<ralive, rraw, rdata, rstr, rstep, rreads, rlog, NotReader>>

\* As ReaderProcessReturn, were the rest of process() left to a timer: it
\* returns with messages still to publish.
ReaderProcessReturn_Early ==
    /\ rpc = "process"
    /\ rcur' = IF rcur = "replaced" THEN "done_replaced" ELSE "done"
    /\ rpc' = "while"
    /\ UNCHANGED <<ralive, rraw, rdata, rstr, rstep, rreads, rfaults, rlog,
                   NotReader>>

\* process() returns, and read() goes round its loop.
ReaderProcessReturn ==
    /\ rpc = "process"
    /\ rstep = Len(Process(rstr))
    /\ rcur' = IF rcur = "replaced" THEN "done_replaced" ELSE "done"
    /\ rpc' = "while"
    /\ UNCHANGED <<ralive, rraw, rdata, rstr, rstep, rreads, rfaults, rlog,
                   NotReader>>

\* EnclosureReader.stop(), called from any other thread.
ReaderStop ==
    /\ ralive
    /\ ralive' = FALSE
    /\ UNCHANGED <<rpc, rraw, rdata, rstr, rstep, rreads, rfaults, rlog, rcur,
                   NotReader>>

ReaderNext ==
    \/ ReaderLoop
    \/ ReaderReadline
    \/ ReaderReadlineRaise
    \/ ReaderDecode
    \/ ReaderProcessStep
    \/ ReaderEmitRaise
    \/ ReaderProcessReturn
    \/ ReaderStop

\* ------------------------------------------------------------ MycroftMark1

\* The threads of the bus client that run the bridge's handlers.
HandlerThreads == {"h1", "h2"}

\* self._num_pixels
NumPixels == 12 * 2

\* A colour component the caller leaves out.
DefaultComponent == 255

\* len(message) above which on_display sends two commands, and where it cuts.
IconLimit == 60
IconCut == 31

\* "eyes.reset"
EyesReset ==
    <<"e", "y", "e", "s", ".", "r", "e", "s", "e", "t">>
\* "mouth.reset"
MouthReset ==
    <<"m", "o", "u", "t", "h", ".", "r", "e", "s", "e", "t">>
\* "eyes.spin"
EyesSpin ==
    <<"e", "y", "e", "s", ".", "s", "p", "i", "n">>
\* "eyes.color="
EyesColorEq ==
    <<"e", "y", "e", "s", ".", "c", "o", "l", "o", "r", "=">>
\* "eyes.set="
EyesSetEq ==
    <<"e", "y", "e", "s", ".", "s", "e", "t", "=">>
\* "eyes.fill="
EyesFillEq ==
    <<"e", "y", "e", "s", ".", "f", "i", "l", "l", "=">>
\* "mouth.icon="
MouthIconEq ==
    <<"m", "o", "u", "t", "h", ".", "i", "c", "o", "n", "=">>
\* "mouth.icon=$"
MouthIconCont ==
    <<"m", "o", "u", "t", "h", ".", "i", "c", "o", "n", "=", "$">>

\* message.data.get(key, default)
Get(data, key, default) == IF key \in DOMAIN data THEN data[key] ELSE default

\* "if message and message.data": an empty dict is false.
HasData(ev) == DOMAIN ev.data # {}

\* A bus message: the handler the bus calls for it, and its data.
Event(handler, data) == [handler |-> handler, data |-> data]
NoEvent == Event("none", <<>>)

\* What a handler does to the bridge, one entry per step another thread can
\* see.
Op(op, arg) == [op |-> op, arg |-> arg]

\* self.writer.write(command): commands.put(str(command))
Write(command) == Op("put", command)

\* The list [(255, 255, 255) for i in range(self._num_pixels)]
SameColor(t) == [i \in 1..NumPixels |-> t]

\* As Pack, were blue in the most significant byte.
Pack_BlueFirst(r, g, b) == (b * 65536) + (g * 256) + r

\* (r * 65536) + (g * 256) + b
Pack(r, g, b) == (r * 65536) + (g * 256) + b

\* As Round, were the quotient cut off: int(num / den).
Round_Floor(num, den) == num \div den

\* round(num / den) as Python 3 rounds a float: to the nearest integer, and
\* a half to the even one.
Round(num, den) ==
    LET q == num \div den
        r == num - (q * den)
    IN  IF 2 * r > den THEN q + 1
        ELSE IF 2 * r < den THEN q
        ELSE IF q % 2 = 0 THEN q ELSE q + 1

\* on_eyes_fill: int(round(23.0 * percent / 100.0))
FillAmount(percent) == Round(23 * percent, 100)

\* on_eyes_fill(message)
on_eyes_fill(ev) ==
    LET percent == IF HasData(ev) THEN Get(ev.data, "percentage", 0) ELSE 0
        amount == IF HasData(ev) THEN FillAmount(percent) ELSE 0
    IN  <<Write(EyesFillEq \o Str(amount))>>

\* The r, g, b a handler reads from the message, 255 where it has none.
Component(ev, key) ==
    IF HasData(ev) THEN Get(ev.data, key, DefaultComponent)
    ELSE DefaultComponent

\* on_eyes_color(message)
on_eyes_color(ev) ==
    LET r == Component(ev, "r")
        g == Component(ev, "g")
        b == Component(ev, "b")
        color == Pack(r, g, b)
    IN  <<Op("assign_rgb", <<r, g, b>>),
          Write(EyesColorEq \o Str(color))>>

\* on_eyes_set_pixel(message)
on_eyes_set_pixel(ev) ==
    LET idx == IF HasData(ev) THEN Get(ev.data, "idx", 0) ELSE 0
        r == Component(ev, "r")
        g == Component(ev, "g")
        b == Component(ev, "b")
        color == Pack(r, g, b)
    IN  <<Op("load_rgb", <<>>),
          Op("store_rgb", <<idx, <<r, g, b>>>>),
          Write(EyesSetEq \o Str(idx) \o <<",">> \o Str(color))>>

\* on_display: int("") raises ValueError when the message has data but no
\* xOffset or no yOffset.
DisplayRaises(ev) ==
    HasData(ev) /\ ~({"xOffset", "yOffset"} \subseteq DOMAIN ev.data)

\* on_display: the text "mouth.icon=" + x_offset + y_offset +
\* clear_previous + code.
DisplayText(ev) ==
    LET has == HasData(ev)
        code == IF has THEN Get(ev.data, "img_code", <<>>) ELSE <<>>
        x == IF has THEN Str(ev.data["xOffset"]) ELSE <<>>
        y == IF has THEN Str(ev.data["yOffset"]) ELSE <<>>
        clear == IF has THEN Get(ev.data, "clearPrev", "") ELSE ""
        cp == IF clear = "True" THEN 1 ELSE 0
    IN  MouthIconEq
          \o <<"x", "=">> \o x \o <<",">>
          \o <<"y", "=">> \o y \o <<",">>
          \o <<"c", "P", "=">> \o Str(cp) \o <<",">>
          \o code

\* As IconFragments, were the cut one character later.
IconFragments_CutLate(message) ==
    <<SubSeq(message, 1, IconCut + 1) \o <<"$">>,
      MouthIconCont \o SubSeq(message, IconCut + 2, Len(message))>>

\* on_display: message[:31] + "$" and "mouth.icon=$" + message[31:]
IconFragments(message) ==
    <<SubSeq(message, 1, IconCut) \o <<"$">>,
      MouthIconCont \o SubSeq(message, IconCut + 1, Len(message))>>

\* As IsLong, were the test "len(message) >= 60".
IsLong_AtLimit(message) == Len(message) >= IconLimit

\* on_display: len(message) > 60
IsLong(message) == Len(message) > IconLimit

\* on_display(message)
on_display(ev) ==
    IF DisplayRaises(ev) THEN <<Op("raise", "ValueError")>>
    ELSE LET message == DisplayText(ev)
         IN  IF IsLong(message)
             THEN <<Write(IconFragments(message)[1]),
                    Op("sleep", 250),
                    Write(IconFragments(message)[2])>>
             ELSE <<Op("sleep", 100), Write(message)>>

\* handle_factory_reset(message)
handle_factory_reset(ev) == <<Write(EyesSpin), Write(MouthReset)>>

\* handle_register_factory_reset_handler(message)
handle_register_factory_reset_handler(ev) ==
    <<Op("emit", "system.factory.reset.register")>>

\* The handler the bus calls for the event.
Handle(ev) ==
    CASE ev.handler = "on_eyes_fill" -> on_eyes_fill(ev)
      [] ev.handler = "on_eyes_color" -> on_eyes_color(ev)
      [] ev.handler = "on_eyes_set_pixel" -> on_eyes_set_pixel(ev)
      [] ev.handler = "on_display" -> on_display(ev)
      [] ev.handler = "handle_factory_reset" -> handle_factory_reset(ev)
      [] ev.handler = "handle_register_factory_reset_handler" ->
             handle_register_factory_reset_handler(ev)

\* The subscriptions MycroftMark1.__init__ makes, in order: the event and
\* the handler.
OwnSubscriptions ==
    <<<<"system.factory.reset.ping", "handle_register_factory_reset_handler">>,
      <<"system.factory.reset.phal", "handle_factory_reset">>,
      <<"mycroft.not.paired", "handle_not_paired">>,
      <<"mycroft.paired", "handle_paired">>,
      <<"mycroft.pairing.code", "handle_pairing_code">>>>

\* As Subscribed, were every handler callable from the start.
Subscribed_Always(handler) == TRUE

\* The bus can call a handler once it is subscribed: one of __init__'s own
\* from its bus.on on, the others once the bridge is constructed.
Subscribed(handler) ==
    IF \E i \in 1..Len(OwnSubscriptions) : OwnSubscriptions[i][2] = handler
    THEN \E i \in 1..Len(OwnSubscriptions) :
             /\ OwnSubscriptions[i][2] = handler
             /\ OwnSubscriptions[i][1] \in Range(msubs)
    ELSE mpc = "done"

\* The queue as write() changes it, and the rest of the writer.
QueueVars == <<commands, unfinished, enqueued>>
WriterRest == <<walive, wpc, wcmd, ppc, pcmd, calls, budget, faults, handed,
                ended, raised, stopAt>>

\* The constructor's own state.
CtorVars == <<mpc, mthreads, msubs>>

\* State of a bridge whose __init__ has returned.
Constructed ==
    /\ mpc = "done"
    /\ mthreads = {"reader", "writer"}
    /\ msubs = <<"mycroft.stop.handled">>
                   \o [i \in 1..Len(OwnSubscriptions) |->
                          OwnSubscriptions[i][1]]
    /\ mbus = <<"system.factory.reset.register">>
    /\ rgb = SameColor(<<255, 255, 255>>)
    /\ rgbgen = 1

\* No handler has been called yet.
HandlersIdle ==
    hnd = [h \in HandlerThreads |->
              [st |-> "idle", ev |-> NoEvent, todo |-> <<>>, held |-> 0]]

\* No event reaches the bridge: the runs of the writer and of the reader
\* alone.
NoEvents ==
    /\ scenario = "none"
    /\ left = [h \in HandlerThreads |-> 0]
    /\ Constructed
    /\ HandlersIdle

\* The letters of an image code.
Letters ==
    <<"A", "B", "C", "D", "E", "F", "G", "H", "I", "J", "K", "L", "M", "N",
      "O", "P">>

\* An image code of n characters.
Code(n) == [i \in 1..n |-> Letters[((i - 1) % Len(Letters)) + 1]]

\* Offsets and clearPrev values a caller of on_display gives.
Offsets == {0, 10}
ClearPrevs == {"True", "False"}

\* Messages for on_display: with every key, without clearPrev, without
\* offsets, and without data.
DisplayEvents ==
    {Event("on_display",
           [img_code |-> Code(n), xOffset |-> x, yOffset |-> y,
            clearPrev |-> c]) :
        n \in 0..MaxCodeLen, x \in Offsets, y \in Offsets, c \in ClearPrevs}
    \cup {Event("on_display",
                [img_code |-> Code(n), xOffset |-> x, yOffset |-> 0]) :
             n \in 0..MaxCodeLen, x \in Offsets}
    \cup {Event("on_display", [img_code |-> Code(4)]),
          Event("on_display", <<>>)}

\* Percentages a caller of on_eyes_fill gives.
Percentages == 0..100

\* Messages for on_eyes_fill: with a percentage, with data but no
\* percentage, and without data.
FillEvents ==
    {Event("on_eyes_fill", [percentage |-> p]) : p \in Percentages}
    \cup {Event("on_eyes_fill", [other |-> 1]), Event("on_eyes_fill", <<>>)}

\* Colour components, with the ends of the range and values whose decimal
\* and binary digits differ.
ColorValues == {0, 1, 65, 70, 128, 254, 255}

\* Messages for the two colour handlers with components of a colour.
ColorEvents ==
    {Event("on_eyes_color", [r |-> r, g |-> g, b |-> b]) :
        r \in ColorValues, g \in ColorValues, b \in ColorValues}
    \cup {Event("on_eyes_set_pixel", [idx |-> i, r |-> r, g |-> g, b |-> b]) :
             i \in {0, NumPixels - 1},
             r \in {0, 255}, g \in ColorValues, b \in {0, 255}}

\* Components and indexes as a bus message can carry them: any integer.
AnyTriples ==
    {<<255, 0, 0>>, <<0, 255, 0>>, <<0, 0, 255>>, <<300, 0, 0>>, <<0, -1, 0>>}
AnyIndexes == {-25, -1, 0, 23, 24}

\* Messages for the two colour handlers from callers that check nothing.
EyeEvents ==
    {Event("on_eyes_color", [r |-> t[1], g |-> t[2], b |-> t[3]]) :
        t \in AnyTriples}
    \cup {Event("on_eyes_set_pixel",
                [idx |-> i, r |-> t[1], g |-> t[2], b |-> t[3]]) :
             i \in AnyIndexes, t \in AnyTriples}
    \cup {Event("on_eyes_color", [r |-> 7]),
          Event("on_eyes_color", <<>>), Event("on_eyes_set_pixel", <<>>)}

\* Messages that reach the bridge while and after it is constructed.
BridgeEvents ==
    {Event("handle_factory_reset", <<>>),
     Event("handle_register_factory_reset_handler", <<>>),
     Event("on_eyes_fill", [percentage |-> 50])}

\* Messages that reach the bridge on two bus threads at once: icons of a
\* few pixels, of half the faceplate and of MaxIconLen characters, and a
\* message for another handler.
ChunkEvents ==
    {Event("on_display",
           [img_code |-> Code(n), xOffset |-> 0, yOffset |-> 0,
            clearPrev |-> "True"]) : n \in {4, 37, MaxIconLen}}
    \cup {Event("on_eyes_fill", [percentage |-> 50])}

\* The messages of a run.
Events ==
    CASE scenario = "display" -> DisplayEvents
      [] scenario = "fill" -> FillEvents
      [] scenario = "color" -> ColorEvents
      [] scenario = "eyes" -> EyeEvents
      [] scenario = "bridge" -> BridgeEvents
      [] scenario = "chunk" -> ChunkEvents
      [] OTHER -> {}

\* The handler's thread after the step at the head of its list.
Advance(h) ==
    [hnd EXCEPT ![h].todo = Tail(@),
                ![h].st = IF Len(hnd[h].todo) = 1 THEN "returned" ELSE @]

\* The step a handler's thread is at.
AtOp(h, op) ==
    /\ hnd[h].st = "running"
    /\ hnd[h].todo # <<>>
    /\ Head(hnd[h].todo).op = op

\* The bus calls a handler with a message, on one of its threads.
HandlerInvoke(h) ==
    /\ hnd[h].st # "running"
    /\ left[h] > 0
    /\ \E ev \in Events :
          /\ Subscribed(ev.handler)
          /\ hnd' = [hnd EXCEPT ![h] = [st |-> "running", ev |-> ev,
                                        todo |-> Handle(ev), held |-> 0]]
    /\ left' = [left EXCEPT ![h] = left[h] - 1]
    /\ UNCHANGED <<scenario, CtorVars, mbus, rgb, rgbgen, QueueVars,
                   WriterRest, rvars>>

\* self.writer.write(command) in a handler: Queue.put waits while the queue
\* is full.
HandlerPut(h) ==
    /\ AtOp(h, "put")
    /\ Len(commands) < QueueSize
    /\ commands' = Append(commands, Head(hnd[h].todo).arg)
    /\ unfinished' = unfinished + 1
    /\ enqueued' = Append(enqueued, Head(hnd[h].todo).arg)
    /\ hnd' = Advance(h)
    /\ UNCHANGED <<scenario, CtorVars, mbus, rgb, rgbgen, left, WriterRest,
                   rvars>>

\* sleep(seconds) in a handler.
HandlerSleep(h) ==
    /\ AtOp(h, "sleep")
    /\ hnd' = Advance(h)
    /\ UNCHANGED <<scenario, CtorVars, mbus, rgb, rgbgen, left, QueueVars,
                   WriterRest, rvars>>

\* A handler raises: the bus client logs it, and the rest of the handler is
\* not run.
HandlerRaise(h) ==
    /\ AtOp(h, "raise")
    /\ hnd' = [hnd EXCEPT ![h].st = "raised"]
    /\ UNCHANGED <<scenario, CtorVars, mbus, rgb, rgbgen, left, QueueVars,
                   WriterRest, rvars>>

\* self.bus.emit(message.reply(...)) in a handler.
HandlerEmit(h) ==
    /\ AtOp(h, "emit")
    /\ mbus' = Append(mbus, Head(hnd[h].todo).arg)
    /\ hnd' = Advance(h)
    /\ UNCHANGED <<scenario, CtorVars, rgb, rgbgen, left, QueueVars,
                   WriterRest, rvars>>

\* self._current_rgb = [(r, g, b) for i in range(self._num_pixels)]: the
\* attribute names a new list.
HandlerAssignRgb(h) ==
    /\ AtOp(h, "assign_rgb")
    /\ rgb' = SameColor(Head(hnd[h].todo).arg)
    /\ rgbgen' = rgbgen + 1
    /\ hnd' = Advance(h)
    /\ UNCHANGED <<scenario, CtorVars, mbus, left, QueueVars, WriterRest,
                   rvars>>

\* self._current_rgb[idx] = ...: the attribute is read, and names a list.
HandlerLoadRgb(h) ==
    /\ AtOp(h, "load_rgb")
    /\ hnd' = [Advance(h) EXCEPT ![h].held = rgbgen]
    /\ UNCHANGED <<scenario, CtorVars, mbus, rgb, rgbgen, left, QueueVars,
                   WriterRest, rvars>>

\* The index of a list of NumPixels items is one of -NumPixels..NumPixels-1.
ValidIndex(idx) == idx >= 0 - NumPixels /\ idx < NumPixels

\* The place list[idx] names, counted from 1.
Place(idx) == IF idx < 0 THEN NumPixels + idx + 1 ELSE idx + 1

\* self._current_rgb[idx] = (r, g, b): the item is stored in the list that
\* was read, which the attribute may no longer name.
HandlerStoreRgb(h) ==
    /\ AtOp(h, "store_rgb")
    /\ LET idx == Head(hnd[h].todo).arg[1]
           t == Head(hnd[h].todo).arg[2]
       IN  /\ ValidIndex(idx)
           /\ rgb' = IF hnd[h].held = rgbgen
                      THEN [rgb EXCEPT ![Place(idx)] = t] ELSE rgb
    /\ hnd' = Advance(h)
    /\ UNCHANGED <<scenario, CtorVars, mbus, rgbgen, left, QueueVars,
                   WriterRest, rvars>>

\* self._current_rgb[idx] = (r, g, b) raises IndexError.
HandlerStoreRaise(h) ==
    /\ AtOp(h, "store_rgb")
    /\ ~ValidIndex(Head(hnd[h].todo).arg[1])
    /\ hnd' = [hnd EXCEPT ![h].st = "raised"]
    /\ UNCHANGED <<scenario, CtorVars, mbus, rgb, rgbgen, left, QueueVars,
                   WriterRest, rvars>>

\* self.__init_serial(): serial_for_url returns the open port.
MInitSerial ==
    /\ mpc = "init_serial"
    /\ mpc' = "reader"
    /\ UNCHANGED <<scenario, mthreads, msubs, mbus, rgb, rgbgen, hnd, left,
                   wvars, rvars>>

\* As MInitSerialRaise, were the port opened after the reader is created.
MInitSerialRaise_Late ==
    /\ mpc = "init_serial"
    /\ mpc' = "raised"
    /\ mthreads' = {"reader"}
    /\ msubs' = <<"mycroft.stop.handled">>
    /\ UNCHANGED <<scenario, mbus, rgb, rgbgen, hnd, left, wvars, rvars>>

\* self.__init_serial(): serial_for_url raises; the error is logged and
\* raised again, and leaves __init__.
MInitSerialRaise ==
    /\ mpc = "init_serial"
    /\ mpc' = "raised"
    /\ UNCHANGED <<scenario, mthreads, msubs, mbus, rgb, rgbgen, hnd, left,
                   wvars, rvars>>

\* self.reader = EnclosureReader(...): its thread starts, and it subscribes
\* to "mycroft.stop.handled".
MStartReader ==
    /\ mpc = "reader"
    /\ mthreads' = mthreads \cup {"reader"}
    /\ msubs' = Append(msubs, "mycroft.stop.handled")
    /\ mpc' = "writer"
    /\ UNCHANGED <<scenario, mbus, rgb, rgbgen, hnd, left, wvars, rvars>>

\* self.writer = EnclosureWriter(...): its thread starts.
MStartWriter ==
    /\ mpc = "writer"
    /\ mthreads' = mthreads \cup {"writer"}
    /\ mpc' = "pixels"
    /\ UNCHANGED <<scenario, msubs, mbus, rgb, rgbgen, hnd, left, wvars,
                   rvars>>

\* self._num_pixels and self._current_rgb are set.
MInitPixels ==
    /\ mpc = "pixels"
    /\ rgb' = SameColor(<<255, 255, 255>>)
    /\ rgbgen' = rgbgen + 1
    /\ mpc' = "eyes.reset"
    /\ UNCHANGED <<scenario, mthreads, msubs, mbus, hnd, left, wvars, rvars>>

\* self.writer.write("eyes.reset"), then self.writer.write("mouth.reset").
MWrite ==
    /\ mpc \in {"eyes.reset", "mouth.reset"}
    /\ Len(commands) < QueueSize
    /\ LET command == IF mpc = "eyes.reset" THEN EyesReset ELSE MouthReset
       IN  /\ commands' = Append(commands, command)
           /\ enqueued' = Append(enqueued, command)
    /\ unfinished' = unfinished + 1
    /\ mpc' = IF mpc = "eyes.reset" THEN "mouth.reset" ELSE "subscribe"
    /\ UNCHANGED <<scenario, mthreads, msubs, mbus, rgb, rgbgen, hnd, left,
                   WriterRest, rvars>>

\* The subscriptions of __init__ made so far.
OwnSubscribed ==
    Cardinality({i \in 1..Len(OwnSubscriptions) :
                    OwnSubscriptions[i][1] \in Range(msubs)})

\* self.bus.on(event, handler), one event after the other.
MSubscribe ==
    /\ mpc = "subscribe"
    /\ msubs' = Append(msubs, OwnSubscriptions[OwnSubscribed + 1][1])
    /\ mpc' = IF OwnSubscribed + 1 = Len(OwnSubscriptions)
               THEN "register" ELSE "subscribe"
    /\ UNCHANGED <<scenario, mthreads, mbus, rgb, rgbgen, hnd, left, wvars,
                   rvars>>

\* self.bus.emit(Message("system.factory.reset.register", ...)), and
\* __init__ returns.
MRegister ==
    /\ mpc = "register"
    /\ mbus' = Append(mbus, "system.factory.reset.register")
    /\ mpc' = "done"
    /\ UNCHANGED <<scenario, mthreads, msubs, rgb, rgbgen, hnd, left, wvars,
                   rvars>>

\* The thread of EnclosureWriter, once __init__ has started it.
StartedWriterThread ==
    /\ "writer" \in mthreads
    /\ WriterThread

\* ----------------------------------------------------------- specifications

\* Two callers of write(), MaxCalls commands each.
WriterSpecInit ==
    /\ WriterInit([p \in Producers |-> MaxCalls], MaxFaults)
    /\ ReaderInit
    /\ NoEvents

WriterSpec == WriterSpecInit /\ [][WriterNext]_vars

\* The thread that runs flush() keeps being scheduled, and a call of
\* serial.write ends.
FairWriterSpec == WriterSpec /\ WF_vars(WriterThread)

\* One caller with more commands than the queue holds, and a second caller;
\* one serial write may raise.
BackpressureInit ==
    /\ WriterInit([p \in Producers |->
                      IF p = "p1" THEN QueueSize + 1 ELSE ExtraCalls], 1)
    /\ ReaderInit
    /\ NoEvents

\* stop() is not called in these runs.
BackpressureNext ==
    \/ \E p \in Producers : WriteCall(p)
    \/ \E p \in Producers : QueuePut(p)
    \/ WriterThread

BackpressureSpec == BackpressureInit /\ [][BackpressureNext]_vars

\* The reader thread and the lines the device sends.
ReaderSpecInit ==
    /\ WriterInit([p \in Producers |-> 0], 0)
    /\ ReaderInit
    /\ NoEvents

ReaderSpec == ReaderSpecInit /\ [][ReaderNext]_vars

\* Messages for on_display reach a constructed bridge, one at a time, while
\* the writer's thread runs; one serial write may raise.
DisplayInit ==
    /\ WriterInit([p \in Producers |-> 0], 1)
    /\ ReaderInit
    /\ scenario = "display"
    /\ left = [h \in HandlerThreads |-> IF h = "h1" THEN 1 ELSE 0]
    /\ Constructed
    /\ HandlersIdle

DisplayNext ==
    \/ \E h \in HandlerThreads : HandlerInvoke(h)
    \/ \E h \in HandlerThreads : HandlerPut(h)
    \/ \E h \in HandlerThreads : HandlerSleep(h)
    \/ \E h \in HandlerThreads : HandlerRaise(h)
    \/ WriterThread

DisplaySpec == DisplayInit /\ [][DisplayNext]_vars

\* MycroftMark1.__init__ runs, and the bus gives its threads messages for
\* the handlers that are subscribed; one serial write may raise.
BridgeInit ==
    /\ WriterInit([p \in Producers |-> 0], 1)
    /\ ReaderInit
    /\ scenario = "bridge"
    /\ left = [h \in HandlerThreads |-> MaxEvents]
    /\ mpc = "init_serial"
    /\ mthreads = {}
    /\ msubs = <<>>
    /\ mbus = <<>>
    /\ rgb = <<>>
    /\ rgbgen = 0
    /\ HandlersIdle

BridgeNext ==
    \/ MInitSerial
    \/ MInitSerialRaise
    \/ MStartReader
    \/ MStartWriter
    \/ MInitPixels
    \/ MWrite
    \/ MSubscribe
    \/ MRegister
    \/ \E h \in HandlerThreads : HandlerInvoke(h)
    \/ \E h \in HandlerThreads : HandlerPut(h)
    \/ \E h \in HandlerThreads : HandlerEmit(h)
    \/ StartedWriterThread

BridgeSpec == BridgeInit /\ [][BridgeNext]_vars

\* Messages for the eye handlers reach a constructed bridge: either one
\* message with a colour or a percentage, or one message on each of the two
\* bus threads from callers that check nothing.
EyesInit ==
    /\ WriterInit([p \in Producers |-> 0], 0)
    /\ ReaderInit
    /\ scenario \in {"color", "fill", "eyes"}
    /\ left = [h \in HandlerThreads |->
                  IF h = "h1" \/ scenario = "eyes" THEN 1 ELSE 0]
    /\ Constructed
    /\ HandlersIdle

EyesNext ==
    \/ \E h \in HandlerThreads : HandlerInvoke(h)
    \/ \E h \in HandlerThreads : HandlerAssignRgb(h)
    \/ \E h \in HandlerThreads : HandlerLoadRgb(h)
    \/ \E h \in HandlerThreads : HandlerStoreRgb(h)
    \/ \E h \in HandlerThreads : HandlerStoreRaise(h)
    \/ \E h \in HandlerThreads : HandlerPut(h)

EyesSpec == EyesInit /\ [][EyesNext]_vars

\* Messages reach a constructed bridge on two bus threads at once, one for
\* each, while the writer's thread runs; one serial write may raise.
ChunkInit ==
    /\ WriterInit([p \in Producers |-> 0], 1)
    /\ ReaderInit
    /\ scenario = "chunk"
    /\ left = [h \in HandlerThreads |-> 1]
    /\ Constructed
    /\ HandlersIdle

ChunkNext ==
    \/ \E h \in HandlerThreads : HandlerInvoke(h)
    \/ \E h \in HandlerThreads : HandlerPut(h)
    \/ \E h \in HandlerThreads : HandlerSleep(h)
    \/ WriterThread

ChunkSpec == ChunkInit /\ [][ChunkNext]_vars

\* ------------------------------------------------------ claims: the writer

IsPrefix(s, t) == Len(s) <= Len(t) /\ SubSeq(t, 1, Len(s)) = s

NoDuplicates(s) == \A i, j \in 1..Len(s) : s[i] = s[j] => i = j

\* The command a transmitted line carries.
CmdOf(line) == SubSeq(line, 1, Len(line) - 1)

\* The commands handed to the link so far, without their newline.
HandedCmds == [i \in 1..Len(handed) |-> CmdOf(handed[i])]

\* The command flush() has taken from the queue and not yet handed over.
InHand == IF wpc = "write" THEN <<CmdOf(wcmd)>> ELSE <<>>

\* C1: with several callers of write() running at once, the lines handed to
\* the serial link are, at every moment, the commands that entered the queue,
\* in that order and each followed by a newline: a prefix of the enqueue
\* order, with no command reordered, repeated or skipped; and a line is
\* handed over only when every earlier serial.write has returned or raised.
C1_FifoPrefix ==
    /\ IsPrefix(HandedCmds, enqueued)
    /\ \A i \in 1..Len(handed) : handed[i] = Append(enqueued[i], "\n")
    /\ NoDuplicates(handed)
    /\ Len(handed) = ended + (IF wpc = "writing" THEN 1 ELSE 0)

\* C1's case: commands of both callers, interleaved, have been handed over
\* and their writes have ended.
C1_Witness ==
    /\ Len(handed) >= 3
    /\ ended = Len(handed)
    /\ \E i, j, k \in 1..Len(handed) :
        /\ i < j /\ j < k
        /\ handed[i][1] = "p1" /\ handed[j][1] = "p2" /\ handed[k][1] = "p1"

\* C2: the queue never holds more than 16 commands; a call of write() made
\* while 16 are pending stays inside put() with its command, neither
\* returning, raising nor dropping the command; it leaves put() only by
\* appending its command to a queue that has room, and it can do so as soon
\* as the writer has taken a command out.
C2_Backpressure ==
    /\ [](Len(commands) <= 16)
    /\ [](\A p \in Producers :
            (ppc[p] = "put" /\ Len(commands) < 16) => ENABLED QueuePut(p))
    /\ [][\A p \in Producers :
            /\ (ppc[p] = "put" /\ Len(commands) = 16)
                   => (ppc'[p] = "put" /\ pcmd'[p] = pcmd[p])
            /\ (ppc[p] = "put" /\ ppc'[p] # "put")
                   => /\ Len(commands) < 16
                      /\ commands' = Append(commands, pcmd[p])
                      /\ enqueued' = Append(enqueued, pcmd[p])]_vars

\* C2's case: 16 commands are pending after the writer took one out and a
\* 17th went in, and a caller is waiting inside put().
C2_Witness ==
    /\ Len(commands) = 16
    /\ Len(enqueued) = 17
    /\ \E p \in Producers : ppc[p] = "put" /\ pcmd[p] # NoCmd

\* What holds of the writer once a serial write has raised.
C3_AfterRaise ==
    /\ wpc = "exited" => ~walive
    /\ \A c \in raised :
        Cardinality({i \in 1..Len(handed) : handed[i] = c}) = 1
    /\ enqueued = HandedCmds \o InHand \o commands

\* C3: when the serial write of a command raises, that command is not
\* written again and flush() keeps running (it ends only after stop()); the
\* commands enqueued and not yet handed over are all still held, in order, and
\* unless stop() is called they are all handed to the link in the end.
C3_WriterSurvivesRaise ==
    /\ [](raised # {} => C3_AfterRaise)
    /\ ((raised # {}) ~> (HandedCmds = enqueued \/ ~walive))

\* C3's case: a write raised, a later command was handed over and its write
\* ended, and the writer has not been stopped.
C3_Witness ==
    /\ walive
    /\ \E i, j \in 1..Len(handed) :
        /\ i < j
        /\ handed[i] \in raised
        /\ ended >= j

\* C4: every command taken from the queue is acknowledged with task_done()
\* once, whether its serial write returned or raised: when the queue is empty
\* and flush() holds no command, the queue counts no unfinished command.
C4_AcknowledgedOnce ==
    (/\ commands = <<>>
     /\ wpc \in {"while", "get", "exited"}
     /\ \A p \in Producers : ppc[p] = "idle")
        => unfinished = 0

\* C5 as stated: once stop() has returned, no command is handed to the link.
C5_NothingAfterStop == stopAt >= 0 => Len(handed) = stopAt

\* C5, amended: once stop() has returned, at most one more command is handed
\* to the link, the one of the iteration of flush() under way when stop() was
\* called; an iteration that has not handed its command over yet is that one.
C5_AtMostOneAfterStop ==
    stopAt >= 0 =>
        /\ Len(handed) \in {stopAt, stopAt + 1}
        /\ wpc \in {"get", "write"} => Len(handed) = stopAt

\* C5's case: after stop() one more command was handed over, flush() has
\* ended, and commands are left in the queue.
C5_Witness ==
    /\ stopAt >= 0
    /\ Len(handed) = stopAt + 1
    /\ wpc = "exited"
    /\ commands # <<>>

\* ------------------------------------------------------ claims: the reader

\* What process() has done for the line in hand, without the places in the
\* code: each step as <<"emit", type, data>> or <<"sleep", <<>>, duration>>.
Notes == [i \in 1..Len(rlog) |-> <<rlog[i].op, rlog[i].type, rlog[i].data>>]

Note(type, data) == <<"emit", type, data>>

SettleDelay == <<"sleep", <<>>, {<<"ms", 500>>}>>

\* The positions in Notes of the step n.
Places(n) == {i \in 1..Len(Notes) : Notes[i] = n}

\* process() has been entered for the line rstr.
ProcessEntered ==
    rcur \in {"decoded", "replaced", "emit_raised", "done", "done_replaced"}

\* process() has returned for the line rstr.
ProcessReturned == rcur \in {"done", "done_replaced"}

HoldsMarker(data) == \E m \in Markers : Contains(m, data)

\* The raw line has been published as a message of its own: a message whose
\* type is the line, other than the stop request of the line "mycroft.stop".
PassThroughs ==
    Cardinality(Places(Note(rstr, {})))
        - (IF rstr = <<"mycroft.stop">>
           THEN Cardinality({i \in 1..Len(rlog) : rlog[i].at = 81}) ELSE 0)

GreyEyesColor ==
    Note(<<"enclosure.eyes.color">>, {<<"r", 70>>, <<"g", 65>>, <<"b", 69>>})

ShutdownNotes ==
    << GreyEyesColor,
       Note(<<"enclosure.eyes.timedspin">>, {<<"length", 12000>>}),
       Note(<<"enclosure.mouth.reset">>, {}),
       SettleDelay,
       Note(<<"system.shutdown">>, {}) >>

RebootNotes ==
    << GreyEyesColor,
       Note(<<"enclosure.eyes.spin">>, {}),
       Note(<<"enclosure.mouth.reset">>, {}),
       SettleDelay,
       Note(<<"system.reboot">>, {}) >>

\* The step terminal is only ever done right after the four steps before it
\* in block, and once process() has returned for a line holding marker it
\* has been done exactly once.
EndsItsBlock(marker, block) ==
    /\ \A i \in Places(block[5]) :
        i >= 5 /\ SubSeq(Notes, i - 4, i) = block
    /\ (ProcessReturned /\ Contains(marker, rstr))
           => Cardinality(Places(block[5])) = 1

\* C6: for a line holding "unit.shutdown", process() publishes
\* enclosure.eyes.color (r 70, g 65, b 69), enclosure.eyes.timedspin (length
\* 12000) and enclosure.mouth.reset, sleeps, and only then publishes
\* system.shutdown; for a line holding "unit.reboot" it publishes
\* enclosure.eyes.color, enclosure.eyes.spin and enclosure.mouth.reset, sleeps,
\* and only then publishes system.reboot.  At no moment has the terminal
\* message been published without its three display messages before it.
C6_ShutdownRebootOrder ==
    /\ EndsItsBlock(<<"unit.shutdown">>, ShutdownNotes)
    /\ EndsItsBlock(<<"unit.reboot">>, RebootNotes)

\* C6's case: process() has returned for a line that holds both
\* "unit.shutdown" and "unit.reboot".
C6_Witness ==
    /\ ProcessReturned
    /\ Contains(<<"unit.shutdown">>, rstr)
    /\ Contains(<<"unit.reboot">>, rstr)
    /\ Places(Note(<<"system.shutdown">>, {})) # {}
    /\ Places(Note(<<"system.reboot">>, {})) # {}

\* C7: for a decoded line, not empty, that holds none of the words process()
\* looks for, process() publishes one message, whose type is the line as it
\* is, and does nothing else.
C7_PassThroughOnly ==
    (ProcessEntered /\ ~HoldsMarker(rstr)) =>
        /\ rstr # <<>>
        /\ IsPrefix(Notes, <<Note(rstr, {})>>)
        /\ ProcessReturned => Notes = <<Note(rstr, {})>>

\* C7's case: process() has returned for a line of two pieces that holds
\* part of a marker ("system.version" without "Command: ") but no marker.
C7_Witness ==
    /\ ProcessReturned
    /\ ~HoldsMarker(rstr)
    /\ rstr = <<"system.version", "x">>
    /\ Len(rlog) = 1

\* C8: for a line holding "mycroft.stop", process() publishes the stop
\* request "mycroft.stop", once, and never a message of its own for the raw
\* line.
C8_StopSuppressesPassThrough ==
    (ProcessEntered /\ Contains(<<"mycroft.stop">>, rstr)) =>
        /\ PassThroughs = 0
        /\ \A i \in 1..Len(rlog) : rlog[i].at # 73
        /\ ProcessReturned =>
               Cardinality(Places(Note(<<"mycroft.stop">>, {}))) = 1

\* C8's case: process() has returned for a line that holds "mycroft.stop"
\* and another piece of text; more than the stop request was published.
C8_Witness ==
    /\ ProcessReturned
    /\ Contains(<<"mycroft.stop">>, rstr)
    /\ Len(rstr) = 2
    /\ Len(rlog) >= 2

\* C9 as stated: a line that holds one of the words process() looks for gets
\* that word's messages and no message of its own for the raw line.
C9_PassThroughOnlyUnmarked ==
    (ProcessReturned /\ HoldsMarker(rstr)) => PassThroughs = 0

\* C9, amended: the raw line is published, once and first, for every line
\* that does not hold "mycroft.stop", whatever other words it holds, and for
\* no line that holds "mycroft.stop".
C9_PassThroughUnlessStop ==
    /\ (ProcessEntered /\ Contains(<<"mycroft.stop">>, rstr))
           => PassThroughs = 0
    /\ (ProcessEntered /\ ~Contains(<<"mycroft.stop">>, rstr) /\ rlog # <<>>)
           => (PassThroughs = 1 /\ Notes[1] = Note(rstr, {}))
    /\ (ProcessReturned /\ ~Contains(<<"mycroft.stop">>, rstr))
           => PassThroughs = 1

\* C9's case: process() has returned for a line that holds "volume.up"; the
\* raw line and then mycroft.volume.increase have been published.
C9_Witness ==
    /\ ProcessReturned
    /\ Contains(<<"volume.up">>, rstr)
    /\ Len(Notes) = 2
    /\ Notes[1] = Note(rstr, {})
    /\ Notes[2][2] = <<"mycroft.volume.increase">>

\* The bytes of the line read, decoded with the bytes UTF-8 rejects replaced.
Replaced(bytes) ==
    [i \in 1..Len(bytes) |-> IF bytes[i] = "\\xff" THEN "\\ufffd" ELSE bytes[i]]

\* C10: read() ends only after stop(): a readline() that raises, bytes that
\* are not UTF-8 and a publication that raises all lead back to the top of
\* the loop.  A line with bytes that are not UTF-8 is not dropped: process()
\* gets it with those bytes replaced.  Whatever happened to the lines before,
\* when process() returns for a line everything it is to do for that line
\* has been done.
C10_ReaderSurvives ==
    /\ rpc = "exited" => ~ralive
    /\ rcur \in {"empty", "read_raised", "emit_raised"} => rpc = "while"
    /\ ProcessEntered =>
        /\ rstr # <<>>
        /\ rstr = Replaced(SubSeq(rraw, 1, Len(rraw) - 2))
    /\ rcur \in {"replaced", "done_replaced"} => "\\ufffd" \in Range(rstr)
    /\ ProcessReturned =>
        /\ rlog = Process(rstr)
        /\ rlog # <<>>

\* C10's case: an earlier call raised (readline() or a publication), the next
\* line held a byte that is not UTF-8, and process() has returned for it with
\* the byte replaced; stop() has not been called.
C10_Witness ==
    /\ ralive
    /\ rfaults < MaxFaults
    /\ rreads = 2
    /\ rcur = "done_replaced"
    /\ Notes[1] = Note(rstr, {})

\* ------------------------------------------------------ claims: the bridge

\* The handler's thread has run the handler to its end for a message.
Returned(h, handler) ==
    /\ hnd[h].st = "returned"
    /\ hnd[h].ev.handler = handler

\* The text on_display builds for the message a thread has handled.
TextOf(h) == DisplayText(hnd[h].ev)

\* C11: a display text of more than 60 characters goes out as two commands:
\* the first is the first 31 characters of the text and then "$", the second
\* is "mouth.icon=$" and then the rest of the text, so that the first
\* without its "$" and the second without its "mouth.icon=$" make the text.
C11_TwoFragments ==
    \A h \in HandlerThreads :
        (Returned(h, "on_display") /\ Len(TextOf(h)) > 60) =>
            /\ Len(enqueued) = 2
            /\ Len(enqueued[1]) = 32
            /\ SubSeq(enqueued[1], 1, 31) = SubSeq(TextOf(h), 1, 31)
            /\ enqueued[1][32] = "$"
            /\ Len(enqueued[2]) = 12 + (Len(TextOf(h)) - 31)
            /\ SubSeq(enqueued[2], 1, 12) = MouthIconCont
            /\ SubSeq(enqueued[2], 13, Len(enqueued[2]))
                   = SubSeq(TextOf(h), 32, Len(TextOf(h)))
            /\ SubSeq(enqueued[1], 1, Len(enqueued[1]) - 1)
                   \o SubSeq(enqueued[2], 13, Len(enqueued[2])) = TextOf(h)

\* A text of 61 characters has gone out, and both commands are on the link.
C11_Witness ==
    /\ Returned("h1", "on_display")
    /\ Len(TextOf("h1")) = 61
    /\ Len(enqueued) = 2
    /\ Len(handed) = 2
    /\ wpc = "get"

\* C12: a display text of at most 60 characters goes out as exactly one
\* command, which is the text.
C12_OneCommand ==
    \A h \in HandlerThreads :
        (Returned(h, "on_display") /\ Len(TextOf(h)) <= 60) =>
            enqueued = <<TextOf(h)>>

\* A text of exactly 60 characters has gone out, and is on the link.
C12_Witness ==
    /\ Returned("h1", "on_display")
    /\ Len(TextOf("h1")) = 60
    /\ enqueued = <<TextOf("h1")>>
    /\ handed = <<WireLine(TextOf("h1"))>>
    /\ wpc = "get"

\* The two commands of __init__, as the link carries them.
FirstLines ==
    <<<<"e", "y", "e", "s", ".", "r", "e", "s", "e", "t", "\n">>,
      <<"m", "o", "u", "t", "h", ".", "r", "e", "s", "e", "t", "\n">>>>

C14_NothingConstructed ==
    mpc = "raised" =>
        /\ mthreads = {}
        /\ commands = <<>>
        /\ enqueued = <<>>
        /\ handed = <<>>
        /\ msubs = <<>>
        /\ mbus = <<>>
        /\ rgb = <<>>
        /\ \A h \in HandlerThreads : hnd[h].st = "idle"

\* Opening the serial link has raised.
C14_Witness ==
    /\ mpc = "raised"
    /\ ~ENABLED BridgeNext

\* The digit a character stands for.
DigitValue(c) == CHOOSE d \in 0..9 : Digit(d) = c

RECURSIVE ParseNat(_)
\* The number a string of digits stands for.
ParseNat(s) ==
    IF s = <<>> THEN 0
    ELSE 10 * ParseNat(SubSeq(s, 1, Len(s) - 1)) + DigitValue(s[Len(s)])

\* The integer its decimal text stands for, as the peripheral reads it.
ParseInt(s) == IF s[1] = "-" THEN 0 - ParseNat(Tail(s)) ELSE ParseNat(s)

\* Where the first c is in s.
IndexOf(s, c) ==
    CHOOSE i \in 1..Len(s) : s[i] = c /\ \A j \in 1..(i - 1) : s[j] # c

\* The text after the "=" of a command, and its fields.
ArgsOf(cmd) == SubSeq(cmd, IndexOf(cmd, "=") + 1, Len(cmd))
IsEyesColor(cmd) ==
    IsPrefix(<<"e", "y", "e", "s", ".", "c", "o", "l", "o", "r", "=">>, cmd)
IsEyesSet(cmd) ==
    IsPrefix(<<"e", "y", "e", "s", ".", "s", "e", "t", "=">>, cmd)
SetIndex(cmd) ==
    ParseInt(SubSeq(ArgsOf(cmd), 1, IndexOf(ArgsOf(cmd), ",") - 1))
ColorOf(cmd) ==
    IF IsEyesSet(cmd)
    THEN ParseInt(SubSeq(ArgsOf(cmd), IndexOf(ArgsOf(cmd), ",") + 1,
                         Len(ArgsOf(cmd))))
    ELSE ParseInt(ArgsOf(cmd))

\* The components a handler's thread was given.
Given(h, key) ==
    IF key \in DOMAIN hnd[h].ev.data THEN hnd[h].ev.data[key]
    ELSE IF key = "idx" THEN 0 ELSE 255

\* C15: the snapshot is 24 triples with every component in 0..255, and
\* every eyes.set command enqueued names a pixel in 0..23.
C15_SnapshotInRange ==
    /\ Len(rgb) = 24
    /\ \A i \in 1..Len(rgb) : \A k \in 1..3 : rgb[i][k] \in 0..255
    /\ \A i \in 1..Len(enqueued) :
          IsEyesSet(enqueued[i]) => SetIndex(enqueued[i]) \in 0..23

\* The triple a packed colour stands for on the device.
Unpack(v) == <<v \div 65536, (v \div 256) % 256, v % 256>>

RECURSIVE Shown(_, _)
\* The eyes after the commands cmds, from the eyes before.
Shown(eyes, cmds) ==
    IF cmds = <<>> THEN eyes
    ELSE LET cmd == Head(cmds)
             next == IF IsEyesColor(cmd)
                     THEN [i \in 1..24 |-> Unpack(ColorOf(cmd))]
                     ELSE IF IsEyesSet(cmd)
                     THEN [eyes EXCEPT ![SetIndex(cmd) + 1] =
                              Unpack(ColorOf(cmd))]
                     ELSE eyes
         IN  Shown(next, Tail(cmds))

\* The messages handled so far have components in 0..255 and pixels in
\* 0..23.
InRangeEvents ==
    \A h \in HandlerThreads :
        /\ \A k \in {"r", "g", "b"} : Given(h, k) \in 0..255
        /\ Given(h, "idx") \in 0..23

\* C16: once every handler of in-range colour and pixel messages has
\* finished, the snapshot is what the eyes show after the enqueued commands,
\* in the order they were enqueued.
C16_NoLostUpdate ==
    (/\ scenario = "eyes"
     /\ InRangeEvents
     /\ \A h \in HandlerThreads : hnd[h].st # "running") =>
        rgb = Shown([i \in 1..24 |-> <<255, 255, 255>>], enqueued)

\* C17: for r, g, b in 0..255, the colour sent in eyes.color and in eyes.set
\* is r*65536 + g*256 + b, is in 0..16777215, and gives back r, g and b;
\* (255,0,0) is sent as 16711680 and (0,255,0) as 65280.
C17_Packing ==
    \A h \in HandlerThreads :
        (/\ scenario = "color"
         /\ hnd[h].st = "returned") =>
            LET r == Given(h, "r")
                g == Given(h, "g")
                b == Given(h, "b")
                v == ColorOf(enqueued[1])
            IN  /\ Len(enqueued) = 1
                /\ IsEyesColor(enqueued[1]) \/ IsEyesSet(enqueued[1])
                /\ IsEyesColor(enqueued[1])
                       <=> hnd[h].ev.handler = "on_eyes_color"
                /\ v = (r * 65536) + (g * 256) + b
                /\ v \in 0..16777215
                /\ Unpack(v) = <<r, g, b>>
                /\ <<r, g, b>> = <<255, 0, 0>> =>
                       ArgsOf(enqueued[1])
                           \in {<<"1", "6", "7", "1", "1", "6", "8", "0">>,
                                <<"0", ",", "1", "6", "7", "1", "1", "6",
                                  "8", "0">>,
                                <<"2", "3", ",", "1", "6", "7", "1", "1",
                                  "6", "8", "0">>}
                /\ <<r, g, b>> = <<0, 255, 0>> =>
                       ArgsOf(enqueued[1])
                           \in {<<"6", "5", "2", "8", "0">>,
                                <<"0", ",", "6", "5", "2", "8", "0">>,
                                <<"2", "3", ",", "6", "5", "2", "8", "0">>}

\* on_eyes_color has sent red.
C17_Witness ==
    /\ scenario = "color"
    /\ Returned("h1", "on_eyes_color")
    /\ <<Given("h1", "r"), Given("h1", "g"), Given("h1", "b")>>
           = <<255, 0, 0>>
    /\ Len(enqueued) = 1

\* The command on_eyes_fill sends for the amount n.
FillCommand(n) == <<"e", "y", "e", "s", ".", "f", "i", "l", "l", "=">> \o n

\* C18: for a percentage p in 0..100, on_eyes_fill enqueues "eyes.fill=N"
\* with N the integer nearest to 23*p/100, in 0..23, and no less than for a
\* smaller percentage; 0 gives 0, 50 gives 12, 100 gives 23, and a message
\* without data gives 0.
C18_Fill ==
    \A h \in HandlerThreads :
        (/\ scenario = "fill"
         /\ hnd[h].st = "returned") =>
            LET data == hnd[h].ev.data
                p == IF "percentage" \in DOMAIN data
                     THEN data["percentage"] ELSE 0
                n == ParseInt(ArgsOf(enqueued[1]))
            IN  /\ Len(enqueued) = 1
                /\ enqueued[1] = FillCommand(ArgsOf(enqueued[1]))
                /\ n \in 0..23
                /\ 100 * n - 23 * p \in -50..50
                /\ \A q \in 0..p : FillAmount(q) <= n
                /\ \A q \in p..100 : FillAmount(q) >= n
                /\ p = 0 => enqueued[1] = FillCommand(<<"0">>)
                /\ p = 50 => enqueued[1] = FillCommand(<<"1", "2">>)
                /\ p = 100 => enqueued[1] = FillCommand(<<"2", "3">>)
                /\ DOMAIN data = {} => enqueued[1] = FillCommand(<<"0">>)

\* on_eyes_fill has sent the amount for 50 percent, the one half there is.
C18_Witness ==
    /\ scenario = "fill"
    /\ Returned("h1", "on_eyes_fill")
    /\ "percentage" \in DOMAIN hnd["h1"].ev.data
    /\ hnd["h1"].ev.data["percentage"] = 50
    /\ Len(enqueued) = 1

\* --------------------------------------------- claims: stopping, and order

\* C19: a writer that has been stopped and has not left its loop is never
\* in a state where nothing more happens: with the queue empty and no
\* command to come, it still gets to its test of the flag.
C19_StoppedWriterExits ==
    (~walive /\ wpc # "exited") => ENABLED WriterNext

\* C20: the reader handles one line at a time.  A line is read only when
\* nothing of another line is published or left to publish; a message is
\* published only by process() for the line in hand, as its next step;
\* process() goes back to the loop only with every step of the line done,
\* the sleep and the system.shutdown or system.reboot after it included,
\* unless a publication raised.
C20_OneLineAtATime ==
    [][/\ rreads' # rreads =>
            /\ rpc = "readline"
            /\ rlog = <<>>
            /\ rstep = 0
       /\ rlog' # rlog =>
            \/ /\ rpc = "process"
               /\ Len(rlog) < Len(Process(rstr))
               /\ rlog' = Append(rlog, Process(rstr)[Len(rlog) + 1])
               /\ rstr' = rstr
               /\ rreads' = rreads
            \/ /\ rpc = "while"
               /\ rlog' = <<>>
       /\ (rpc = "process" /\ rpc' # "process") =>
            /\ rpc' = "while"
            /\ rlog' = rlog
            /\ \/ rcur' = "emit_raised"
               \/ /\ Len(rlog) = Len(Process(rstr))
                  /\ Contains(<<"unit.shutdown">>, rstr) =>
                        \E i \in 1..(Len(Notes) - 1) :
                            /\ Notes[i] = SettleDelay
                            /\ Notes[i + 1] = Note(<<"system.shutdown">>, {})
                  /\ Contains(<<"unit.reboot">>, rstr) =>
                        \E i \in 1..(Len(Notes) - 1) :
                            /\ Notes[i] = SettleDelay
                            /\ Notes[i + 1] = Note(<<"system.reboot">>, {})
      ]_vars

\* A second line has been read, it holds "unit.shutdown", and process() has
\* returned for it with system.shutdown published last.
C20_Witness ==
    /\ rreads >= 2
    /\ rpc = "while"
    /\ ProcessReturned
    /\ Contains(<<"unit.shutdown">>, rstr)
    /\ ~Contains(<<"unit.reboot">>, rstr)
    /\ Notes # <<>>
    /\ Notes[Len(Notes)] = Note(<<"system.shutdown">>, {})

\* ------------------------------------------------- claims: classification

\* The words process() looks for, in the order it looks for them, each with
\* what is published for it.
MarkerTable ==
    << << <<"Command: ", "system.version">>,
          <<Note(<<"enclosure.started">>, {})>> >>,
       << <<"mycroft.stop">>,
          <<Note(<<"mycroft.stop">>, {})>> >>,
       << <<"volume.up">>,
          <<Note(<<"mycroft.volume.increase">>, {<<"play_sound", TRUE>>})>> >>,
       << <<"volume.down">>,
          <<Note(<<"mycroft.volume.decrease">>, {<<"play_sound", TRUE>>})>> >>,
       << <<"unit.shutdown">>, ShutdownNotes >>,
       << <<"unit.reboot">>, RebootNotes >>,
       << <<"unit.setwifi">>,
          <<Note(<<"system.wifi.setup">>, {})>> >>,
       << <<"unit.factory-reset">>,
          <<Note(<<"system.factory.reset">>, {})>> >>,
       << <<"unit.enable-ssh">>,
          <<Note(<<"system.ssh.enable">>, {})>> >>,
       << <<"unit.disable-ssh">>,
          <<Note(<<"system.ssh.disable">>, {})>> >> >>

RECURSIVE Classified(_, _)
\* What is published for the words of the table from the i-th on that the
\* line holds.
Classified(line, i) ==
    IF i > Len(MarkerTable) THEN <<>>
    ELSE (IF Contains(MarkerTable[i][1], line)
          THEN MarkerTable[i][2] ELSE <<>>)
         \o Classified(line, i + 1)

\* The raw line as a message of its own, which comes before the rest.
RawLineNote(line) ==
    IF Contains(<<"mycroft.stop">>, line) THEN <<>>
    ELSE <<Note(line, {})>>

\* C21: after the raw line, process() publishes for every word of the table
\* that the line holds what belongs to that word, once, in the order of the
\* table, and nothing for a word the line does not hold; while it runs, what
\* it has published is the beginning of that.
C21_EveryMarkerInOrder ==
    ProcessEntered =>
        LET all == RawLineNote(rstr) \o Classified(rstr, 1)
        IN  IF ProcessReturned THEN Notes = all ELSE IsPrefix(Notes, all)

\* process() has returned for a line that holds the last word of the table
\* and then an earlier one, and has published for both, the earlier first.
C21_Witness ==
    /\ ProcessReturned
    /\ rstr = <<"unit.disable-ssh", "volume.up">>
    /\ Notes = <<Note(rstr, {}),
                 Note(<<"mycroft.volume.increase">>, {<<"play_sound", TRUE>>}),
                 Note(<<"system.ssh.disable">>, {})>>

\* ------------------------------------------------------ claims: the icons

\* A transmitted line is the first part of a cut icon command: it ends in
\* "$" before its newline.
IsFirstPart(line) == Len(line) >= 2 /\ line[Len(line) - 1] = "$"

\* A transmitted line is the second part of a cut icon command.
IsSecondPart(line) ==
    IsPrefix(<<"m", "o", "u", "t", "h", ".", "i", "c", "o", "n", "=", "$">>,
             line)

\* C22: on the link, the line after the first part of a cut icon command is
\* its second part, whatever other handlers run at the same time.
C22_BackToBack ==
    \A i \in 1..(Len(handed) - 1) :
        IsFirstPart(handed[i]) => IsSecondPart(handed[i + 1])

\* C23: every command of on_display, with its newline, is at most 64
\* characters long, when enqueued and on the link.
C23_FitsBuffer ==
    /\ \A i \in 1..Len(enqueued) : Len(enqueued[i]) + 1 <= 64
    /\ \A i \in 1..Len(handed) : Len(handed[i]) <= 64

====
